---- MODULE Spec2Model ----
(***************************************************************************)
(* Model of pysisyphus/InternalCoordinates.py: RedundantCoords (bond graph,*)
(* primitive indexing, primitive evaluation, Cartesian back-transformation)*)
(* and DelocalizedCoords.                                                  *)
(*                                                                         *)
(* Numbers are fixed-point integers.  Lengths are in 1/100 bohr, unit      *)
(* vector components and cosines in 1/1000, angles in 1/1000 rad.  Atom    *)
(* indices are 0-based as in the source; TLA+ sequences are 1-based, so    *)
(* atom i is at position i+1 of atoms and coords.                          *)
(***************************************************************************)
EXTENDS Integers, Sequences, FiniteSets, TLC

\* ------------------------------------------------------------------ bounds

\* Largest number of atoms of an input geometry.
MaxAtoms == 4

\* Input positions lie on the columns 0..GridW of a two-row grid.
GridW == 2

\* ------------------------------------------------------------ input domain

Elements == {"h", "c"}

\* Covalent radii in 1/100 bohr (hydrogen 0.59 bohr, carbon 1.44 bohr).
CR == [h |-> 59, c |-> 144]

\* Candidate atom positions <<x, y, z>>: columns 1.25 bohr apart, rows
\* 3.6 bohr apart, all in the plane z = 0.
Points == {<<125 * k, 360 * r, 0>> : k \in 0..GridW, r \in 0..1}

\* Injective sequences of length n over S (distinct atom positions).
RECURSIVE InjSeqs(_, _)
InjSeqs(S, n) ==
    IF n = 0 THEN {<<>>}
    ELSE UNION {{Append(s, x) : x \in S \ {s[k] : k \in 1..Len(s)}} :
                s \in InjSeqs(S, n - 1)}

\* Geometries of n atoms: distinct Points, the first atom at the origin.
Geometries(n) ==
    {<<(<<0, 0, 0>>)>> \o s : s \in InjSeqs(Points \ {<<0, 0, 0>>}, n - 1)}

\* ------------------------------------------------------------ small helpers

Range(s) == {s[k] : k \in 1..Len(s)}

SetOfTuple(t) == {t[k] : k \in 1..Len(t)}

RECURSIVE SumSeq(_)
SumSeq(s) == IF Len(s) = 0 THEN 0 ELSE Head(s) + SumSeq(Tail(s))

Dot3(a, b) == a[1] * b[1] + a[2] * b[2] + a[3] * b[3]

Sub3(a, b) == <<a[1] - b[1], a[2] - b[2], a[3] - b[3]>>

\* scipy pdist entry squared: squared Euclidean distance of two positions.
Dist2(p, q) == Dot3(Sub3(p, q), Sub3(p, q))

\* itertools.combinations(range(n), 2): pairs <<i, j>>, i < j, lexicographic.
RECURSIVE PairsFrom(_, _, _)
PairsFrom(i, j, n) ==
    IF i >= n - 1 THEN <<>>
    ELSE IF j >= n THEN PairsFrom(i + 1, i + 2, n)
    ELSE <<(<<i, j>>)>> \o PairsFrom(i, j + 1, n)

AtomPairs(n) == PairsFrom(0, 1, n)

\* ------------------------------------------------------- module namespace

\* Names bound at module level of InternalCoordinates.py.
GlobalNames ==
    {"namedtuple", "reduce", "itertools", "logging", "np", "pdist",
     "squareform", "geom_from_library", "CR", "PrimitiveCoord",
     "RedundantCoords", "DelocalizedCoords"}

\* ----------------------------------------------------------- merge_fragments

\* Variant for C19: only the first fragment of rest is tried.
FirstHit_HeadOnly(popped, rest) ==
    IF popped \cap rest[1] # {} THEN 1 ELSE 0

\* Index of the first fragment of rest that intersects popped, 0 if none.
FirstHit(popped, rest) ==
    LET hits == {k \in 1..Len(rest) : popped \cap rest[k] # {}}
    IN  IF hits = {} THEN 0 ELSE CHOOSE k \in hits : \A l \in hits : k <= l

\* list.remove(x): drop the first element equal to x.
RemoveFirst(s, x) ==
    LET k == CHOOSE k \in 1..Len(s) : s[k] = x /\ \A l \in 1..(k - 1) : s[l] # x
    IN  SubSeq(s, 1, k - 1) \o SubSeq(s, k + 1, Len(s))

\* Variant for C29: the popped set is not appended when it intersects none
\* of the remaining sets.
RECURSIVE merge_fragments_DropsPopped(_)
merge_fragments_DropsPopped(fragments) ==
    IF Len(fragments) = 1 THEN fragments
    ELSE LET popped == Head(fragments)
             rest   == Tail(fragments)
             k      == FirstHit(popped, rest)
         IN  IF k # 0
             THEN merge_fragments_DropsPopped(
                      Append(RemoveFirst(rest, rest[k]), popped \cup rest[k]))
             ELSE rest

\* Number of nested calls of merge_fragments a call on fragments makes,
\* itself included.
RECURSIVE merge_fragments_depth(_)
merge_fragments_depth(fragments) ==
    IF Len(fragments) = 1 THEN 1
    ELSE LET popped == Head(fragments)
             rest   == Tail(fragments)
             k      == FirstHit(popped, rest)
         IN  IF k # 0
             THEN 1 + merge_fragments_depth(
                          Append(RemoveFirst(rest, rest[k]), popped \cup rest[k]))
             ELSE 1

\* merge_fragments on a non-empty list of sets.
RECURSIVE merge_fragments(_)
merge_fragments(fragments) ==
    IF Len(fragments) = 1 THEN fragments
    ELSE LET popped == Head(fragments)
             rest   == Tail(fragments)
             k      == FirstHit(popped, rest)
         IN  IF k # 0
             THEN merge_fragments(
                      Append(RemoveFirst(rest, rest[k]), popped \cup rest[k]))
             ELSE Append(rest, popped)

\* ---------------------------------------------------------- set_bond_indices

\* Variant for C25: the sum of the radii taken without the factor.
BondFlag_NoFactor(ats, xyz, pair) ==
    LET s == CR[ats[pair[1] + 1]] + CR[ats[pair[2] + 1]]
    IN  Dist2(xyz[pair[1] + 1], xyz[pair[2] + 1]) <= s * s

\* bond_flags = cdm <= factor * (cov_rad1 + cov_rad2), factor = 1.3, squared.
BondFlag(ats, xyz, pair) ==
    LET s == CR[ats[pair[1] + 1]] + CR[ats[pair[2] + 1]]
    IN  100 * Dist2(xyz[pair[1] + 1], xyz[pair[2] + 1]) <= 169 * s * s

\* atom_indices[bond_flags]
DetectedBonds(ats, xyz) ==
    SelectSeq(AtomPairs(Len(ats)), LAMBDA pair : BondFlag(ats, xyz, pair))

SeqMap(s, Op(_)) == [k \in 1..Len(s) |-> Op(s[k])]

\* ------------------------------------------------------ set iteration order

\* The order in which Python iterates a set is fixed by the hash table and
\* is not part of the language: the model draws it from these orders.
HashOrders == {"asc", "desc"}

MinOf(S) == CHOOSE a \in S : \A b \in S : a <= b

MaxOf(S) == CHOOSE a \in S : \A b \in S : a >= b

\* Lexicographic order on bond sets {i, j} by (min, max).
BondSetLess(A, B) ==
    \/ MinOf(A) < MinOf(B)
    \/ MinOf(A) = MinOf(B) /\ MaxOf(A) < MaxOf(B)

\* Iteration of a set of integers under order h.
RECURSIVE IterInts(_, _)
IterInts(S, h) ==
    IF S = {} THEN <<>>
    ELSE LET a == IF h = "asc" THEN MinOf(S) ELSE MaxOf(S)
         IN  <<a>> \o IterInts(S \ {a}, h)

\* Iteration of a set of bond sets under order h.
RECURSIVE IterBondSets(_, _)
IterBondSets(S, h) ==
    IF S = {} THEN <<>>
    ELSE LET a == CHOOSE a \in S : \A b \in S \ {a} :
                      IF h = "asc" THEN BondSetLess(a, b) ELSE BondSetLess(b, a)
         IN  <<a>> \o IterBondSets(S \ {a}, h)

\* itertools.combinations(s, 2) over a sequence: <<s[a], s[b]>>, a < b.
Combinations2(s) ==
    SeqMap(AtomPairs(Len(s)), LAMBDA p : <<s[p[1] + 1], s[p[2] + 1]>>)

\* itertools.product(s, t) over two sequences: s outer, t inner.
ProductSeq(s, t) ==
    [k \in 1..(Len(s) * Len(t)) |->
        <<s[((k - 1) \div Len(t)) + 1], t[((k - 1) % Len(t)) + 1]>>]

\* --------------------------------------------------------- connect_fragments

\* indices[distances.argmin()]: the first pair of least distance.
ArgMinPair(indices, xyz) ==
    LET d(k) == Dist2(xyz[indices[k][1] + 1], xyz[indices[k][2] + 1])
        best == CHOOSE k \in 1..Len(indices) :
                    /\ \A l \in 1..Len(indices) : d(k) <= d(l)
                    /\ \A l \in 1..(k - 1) : d(l) > d(k)
    IN  indices[best]

\* One closest pair for every two fragments of the list.
connect_fragments(xyz, fragments, h) ==
    SeqMap(Combinations2(fragments),
           LAMBDA fp : ArgMinPair(ProductSeq(IterInts(fp[1], h),
                                             IterInts(fp[2], h)), xyz))

\* ---------------------------------------------------------- set_bond_indices

\* reduce(lambda x, y: set(x) | set(y), bond_indices): with a single bond the
\* reduction returns that row itself, an array and not a set.
BondedSet(bonds) ==
    IF Len(bonds) = 1 THEN [array |-> bonds[1]]
    ELSE UNION {SetOfTuple(bonds[k]) : k \in 1..Len(bonds)}

\* Variant for C1: the assertion removed.
AllAtomsBonded_NoAssert(bonds, n) == TRUE

\* The assertion on bonded_set passes.
AllAtomsBonded(bonds, n) == BondedSet(bonds) = 0..(n - 1)

\* set_bond_indices: the exception it raises ("none" if it returns) and the
\* value of self.bond_indices when it ends.
set_bond_indices(ats, xyz, h) ==
    LET bond_indices  == DetectedBonds(ats, xyz)
        bond_ind_sets == SeqMap(bond_indices, SetOfTuple)
    IN  IF Len(bond_ind_sets) = 0
        THEN [err |-> "IndexError", bond_indices |-> <<>>]
        ELSE LET fragments == merge_fragments(bond_ind_sets)
             IN  IF Len(fragments) # 1 /\ "connect_fragments" \notin GlobalNames
                 THEN [err |-> "NameError", bond_indices |-> <<>>]
                 ELSE LET all == IF Len(fragments) # 1
                                 THEN bond_indices
                                      \o connect_fragments(xyz, fragments, h)
                                 ELSE bond_indices
                      IN  IF Len(all) = 1
                          THEN [err |-> "ValueError", bond_indices |-> all]
                          ELSE IF ~AllAtomsBonded(all, Len(ats))
                          THEN [err |-> "AssertionError", bond_indices |-> all]
                          ELSE [err |-> "none", bond_indices |-> all]

\* ------------------------------------------------------- set_bending_indices

\* sort_by_central: <<terminal1, central, terminal2>>.
\* Variant for C13: the common atom put first instead of in the middle.
sort_by_central_CentreFirst(set1, set2, h) ==
    LET central_set == set1 \cap set2
        terminals   == IterInts((set1 \cup set2) \ central_set, h)
        central     == CHOOSE c \in central_set : TRUE
    IN  <<central, terminals[1], terminals[2]>>

sort_by_central(set1, set2, h) ==
    LET central_set == set1 \cap set2
        terminals   == IterInts((set1 \cup set2) \ central_set, h)
        central     == CHOOSE c \in central_set : TRUE
    IN  <<terminals[1], central, terminals[2]>>

\* Variant for C21: only neighbouring bond sets of the iteration are paired.
set_bending_indices_AdjacentPairs(bonds, hb, hi) ==
    LET bond_sets == {SetOfTuple(bonds[k]) : k \in 1..Len(bonds)}
        it        == IterBondSets(bond_sets, hb)
        pairs     == [k \in 1..(Len(it) - 1) |-> <<it[k], it[k + 1]>>]
        hits      == SelectSeq(pairs, LAMBDA p : Cardinality(p[1] \cup p[2]) = 3)
    IN  SeqMap(hits, LAMBDA p : sort_by_central(p[1], p[2], hi))

\* hb: iteration order of the set of bond sets; hi: of a set of atom indices.
set_bending_indices(bonds, hb, hi) ==
    LET bond_sets == {SetOfTuple(bonds[k]) : k \in 1..Len(bonds)}
        pairs     == Combinations2(IterBondSets(bond_sets, hb))
        hits      == SelectSeq(pairs, LAMBDA p : Cardinality(p[1] \cup p[2]) = 3)
    IN  SeqMap(hits, LAMBDA p : sort_by_central(p[1], p[2], hi))

\* ------------------------------------------------------ set_dihedral_indices

\* Variant for C14: the terminal atom always put in front of the bend.
DihedralOf_AlwaysInFront(bond, bend) ==
    LET central == bend[2]
        bes     == {bend[1], bend[3]}
        bois    == SetOfTuple(bond)
    IN  IF Cardinality(bes \cap bois) = 1 /\ central \notin bois
        THEN LET intersect == CHOOSE a \in bois \cap SetOfTuple(bend) : TRUE
                 terminal  == IF bond[1] = intersect THEN bond[2] ELSE bond[1]
             IN  <<terminal>> \o bend
        ELSE <<>>

\* Variant for C22: term_ind = intersect_ind instead of 1 - intersect_ind.
DihedralOf_TerminalIsIntersect(bond, bend) ==
    LET central == bend[2]
        bes     == {bend[1], bend[3]}
        bois    == SetOfTuple(bond)
    IN  IF Cardinality(bes \cap bois) = 1 /\ central \notin bois
        THEN LET intersect == CHOOSE a \in bois \cap SetOfTuple(bend) : TRUE
                 terminal  == intersect
             IN  IF intersect = bend[1]
                 THEN <<terminal>> \o bend
                 ELSE bend \o <<terminal>>
        ELSE <<>>

\* The dihedral one (bond, bend) pair gives, <<>> when the pair gives none.
DihedralOf(bond, bend) ==
    LET central == bend[2]
        bes     == {bend[1], bend[3]}
        bois    == SetOfTuple(bond)
    IN  IF Cardinality(bes \cap bois) = 1 /\ central \notin bois
        THEN LET intersect == CHOOSE a \in bois \cap SetOfTuple(bend) : TRUE
                 terminal  == IF bond[1] = intersect THEN bond[2] ELSE bond[1]
             IN  IF intersect = bend[1]
                 THEN <<terminal>> \o bend
                 ELSE bend \o <<terminal>>
        ELSE <<>>

RECURSIVE DihedralFold(_, _)
DihedralFold(pairs, acc) ==
    IF Len(pairs) = 0 THEN acc
    ELSE LET d == DihedralOf(Head(pairs)[1], Head(pairs)[2])
         IN  IF d # <<>> /\ \A k \in 1..Len(acc) : SetOfTuple(acc[k]) # SetOfTuple(d)
             THEN DihedralFold(Tail(pairs), Append(acc, d))
             ELSE DihedralFold(Tail(pairs), acc)

\* Variant for C23: a dihedral is dropped only when the same ordered tuple
\* was emitted before, not when the same atom set was.
RECURSIVE DihedralFold_ByTuple(_, _)
DihedralFold_ByTuple(pairs, acc) ==
    IF Len(pairs) = 0 THEN acc
    ELSE LET d == DihedralOf(Head(pairs)[1], Head(pairs)[2])
         IN  IF d # <<>> /\ \A k \in 1..Len(acc) : acc[k] # d
             THEN DihedralFold_ByTuple(Tail(pairs), Append(acc, d))
             ELSE DihedralFold_ByTuple(Tail(pairs), acc)

set_dihedral_indices_DedupByTuple(bonds, bends) ==
    DihedralFold_ByTuple(ProductSeq(bonds, bends), <<>>)

\* Variant for C3: set_dihedral_indices without the test against dihedral_sets.
set_dihedral_indices_NoDedup(bonds, bends) ==
    SelectSeq([k \in 1..(Len(bonds) * Len(bends)) |->
                  DihedralOf(bonds[((k - 1) \div Len(bends)) + 1],
                             bends[((k - 1) % Len(bends)) + 1])],
              LAMBDA d : d # <<>>)

set_dihedral_indices(bonds, bends) ==
    DihedralFold(ProductSeq(bonds, bends), <<>>)

\* ------------------------------------------------------ fixed-point numbers

\* A non-finite float (nan, inf): what numpy yields, with a warning and no
\* exception, for x / 0 and for arccos outside [-1, 1].
NaN == 0 - 1073741824

IsNaN(x) == x = NaN

\* Division rounding toward zero; a zero divisor gives a non-finite value.
NDiv(a, b) ==
    IF IsNaN(a) \/ IsNaN(b) \/ b = 0 THEN NaN
    ELSE LET q == (IF a < 0 THEN 0 - a ELSE a) \div (IF b < 0 THEN 0 - b ELSE b)
         IN  IF (a < 0) = (b < 0) THEN q ELSE 0 - q

NMul(a, b) == IF IsNaN(a) \/ IsNaN(b) THEN NaN ELSE a * b

NAdd(a, b) == IF IsNaN(a) \/ IsNaN(b) THEN NaN ELSE a + b

NSub(a, b) == IF IsNaN(a) \/ IsNaN(b) THEN NaN ELSE a - b

NNeg(a) == IF IsNaN(a) THEN NaN ELSE 0 - a

\* Floor of the square root, by bisection.
RECURSIVE SqrtBisect(_, _, _)
SqrtBisect(n, lo, hi) ==
    IF hi - lo <= 1 THEN lo
    ELSE LET mid == (lo + hi) \div 2
         IN  IF mid * mid <= n THEN SqrtBisect(n, mid, hi)
             ELSE SqrtBisect(n, lo, mid)

ISqrt(n) == IF IsNaN(n) \/ n < 0 THEN NaN ELSE SqrtBisect(n, 0, 46340)

\* pi in 1/1000 rad.
PiMilli == 3142

\* 1000 * cos(t / 1000) for 0 <= t <= pi/2, Taylor series to t^8 (Horner).
CosQ(t) ==
    LET x  == (t * t) \div 1000
        t4 == 1000 - x \div 56
        t3 == 1000 - (x * t4) \div 30000
        t2 == 1000 - (x * t3) \div 12000
    IN  1000 - (x * t2) \div 2000

\* np.cos and np.sin of an angle t in 0..PiMilli.
Cos(t) ==
    IF IsNaN(t) THEN NaN
    ELSE IF 2 * t <= PiMilli THEN CosQ(t) ELSE 0 - CosQ(PiMilli - t)

Sin(t) ==
    IF IsNaN(t) THEN NaN
    ELSE IF 2 * t <= PiMilli THEN CosQ(PiMilli \div 2 - t)
         ELSE CosQ(t - PiMilli \div 2)

\* The least angle in lo..hi whose cosine is at most c (cos decreases).
RECURSIVE ArcCosBisect(_, _, _)
ArcCosBisect(c, lo, hi) ==
    IF lo >= hi THEN lo
    ELSE LET mid == (lo + hi) \div 2
         IN  IF CosQ(mid) <= c THEN ArcCosBisect(c, lo, mid)
             ELSE ArcCosBisect(c, mid + 1, hi)

\* np.arccos: non-finite outside [-1, 1].
ArcCos(c) ==
    IF IsNaN(c) \/ c > 1000 \/ c < 0 - 1000 THEN NaN
    ELSE IF c >= 0 THEN ArcCosBisect(c, 0, PiMilli \div 2)
    ELSE PiMilli - ArcCosBisect(0 - c, 0, PiMilli \div 2)

\* ------------------------------------------------------------- 3-vectors

NaNVec == <<NaN, NaN, NaN>>

Zero3 == <<0, 0, 0>>

VNeg(a) == <<NNeg(a[1]), NNeg(a[2]), NNeg(a[3])>>

VAdd(a, b) == <<NAdd(a[1], b[1]), NAdd(a[2], b[2]), NAdd(a[3], b[3])>>

VSub(a, b) == <<NSub(a[1], b[1]), NSub(a[2], b[2]), NSub(a[3], b[3])>>

\* a * k / d, componentwise.
VScale(a, k, d) ==
    <<NDiv(NMul(a[1], k), d), NDiv(NMul(a[2], k), d), NDiv(NMul(a[3], k), d)>>

VDot(a, b) ==
    NAdd(NAdd(NMul(a[1], b[1]), NMul(a[2], b[2])), NMul(a[3], b[3]))

\* np.cross
VCross(a, b) ==
    <<NSub(NMul(a[2], b[3]), NMul(a[3], b[2])),
      NSub(NMul(a[3], b[1]), NMul(a[1], b[3])),
      NSub(NMul(a[1], b[2]), NMul(a[2], b[1]))>>

\* np.linalg.norm
VNorm(a) == ISqrt(VDot(a, a))

\* a / norm as a unit vector in 1/1000.
Unit(a) == VScale(a, 1000, VNorm(a))

\* Dot and cross product of two vectors in 1/1000, in 1/1000.
UDot(a, b) == NDiv(VDot(a, b), 1000)

UCross(a, b) == VScale(VCross(a, b), 1, 1000)

\* row = zeros_like(coords); row[k] = block; row.flatten()
Row(n, blocks) ==
    [c \in 1..(3 * n) |->
        LET atom == (c - 1) \div 3
        IN  IF atom \in DOMAIN blocks THEN blocks[atom][((c - 1) % 3) + 1] ELSE 0]

\* ------------------------------------------------------ primitive evaluation

\* calc_stretch(coords, bond_ind, grad=True): value in 1/100 bohr, gradient
\* row in 1/1000.
calc_stretch(xyz, bond_ind) ==
    LET n           == bond_ind[1]
        m           == bond_ind[2]
        bond        == VSub(xyz[m + 1], xyz[n + 1])
        bond_length == VNorm(bond)
        bond_normed == VScale(bond, 1000, bond_length)
    IN  [val  |-> bond_length,
         grad |-> Row(Len(xyz), (m :> bond_normed) @@ (n :> VNeg(bond_normed)))]

\* min(cos_dihed, 1) then max(cos_dihed, -1): Python's min and max return
\* their first argument unless the second compares smaller (larger), so a
\* non-finite cos_dihed passes through both.
Clamp(c) == IF IsNaN(c) THEN NaN ELSE IF c > 1000 THEN 1000
            ELSE IF c < 0 - 1000 THEN 0 - 1000 ELSE c

\* The arccos calls of calc_bend and calc_dihedral, each with what is done to
\* its argument before the call.

\* are_parallel: rad = np.arccos(vec1.dot(vec2))
arccos_rad(c) == ArcCos(c)

\* calc_bend: angle_rad = np.arccos(u.dot(v))
arccos_angle_rad(c) == ArcCos(c)

\* calc_dihedral: phi_u = np.arccos(u.dot(w)), phi_v = np.arccos(w.dot(v))
arccos_phi(c) == ArcCos(c)

\* calc_dihedral: cos_dihed = min(cos_dihed, 1); cos_dihed = max(cos_dihed, -1);
\* dihedral_rad = np.arccos(cos_dihed)
arccos_dihedral_rad(c) == ArcCos(Clamp(c))

\* are_parallel(vec1, vec2, thresh=1e-6): abs(rad) > pi - thresh, compared
\* in 1/1000000 rad. A comparison with a non-finite value is false.
are_parallel(vec1, vec2) ==
    LET rad == arccos_rad(UDot(vec1, vec2))
    IN  ~IsNaN(rad) /\ rad * 1000 > PiMilli * 1000 - 1

\* calc_bend(coords, angle_ind, grad=True): value in 1/1000 rad, gradient
\* row in 1/1000 rad per bohr.
calc_bend(xyz, angle_ind) ==
    LET m       == angle_ind[1]
        o       == angle_ind[2]
        n       == angle_ind[3]
        u_dash  == VSub(xyz[m + 1], xyz[o + 1])
        v_dash  == VSub(xyz[n + 1], xyz[o + 1])
        u_norm  == VNorm(u_dash)
        v_norm  == VNorm(v_dash)
        u       == VScale(u_dash, 1000, u_norm)
        v       == VScale(v_dash, 1000, v_norm)
        tmp1    == <<1000, 0 - 1000, 1000>>
        par     == are_parallel(u, tmp1) /\ are_parallel(v, tmp1)
        tmp_vec == IF par THEN <<0 - 1000, 1000, 1000>> ELSE tmp1
        w_dash  == IF are_parallel(u, v) THEN UCross(u, tmp_vec) ELSE UCross(u, v)
        w       == VScale(w_dash, 1000, VNorm(w_dash))
        uxw     == UCross(u, w)
        wxv     == UCross(w, v)
        first_term  == VScale(uxw, 100, u_norm)
        second_term == VScale(wxv, 100, v_norm)
    IN  [val  |-> arccos_angle_rad(UDot(u, v)),
         grad |-> Row(Len(xyz),
                      (m :> first_term)
                      @@ (o :> VSub(VNeg(first_term), second_term))
                      @@ (n :> second_term))]

\* calc_dihedral(coords, dihedral_ind, grad=True): value in 1/1000 rad,
\* gradient row in 1/1000 rad per bohr.
calc_dihedral(xyz, dihedral_ind) ==
    LET m      == dihedral_ind[1]
        o      == dihedral_ind[2]
        p      == dihedral_ind[3]
        n      == dihedral_ind[4]
        u_dash == VSub(xyz[m + 1], xyz[o + 1])
        v_dash == VSub(xyz[n + 1], xyz[p + 1])
        w_dash == VSub(xyz[p + 1], xyz[o + 1])
        u_norm == VNorm(u_dash)
        v_norm == VNorm(v_dash)
        w_norm == VNorm(w_dash)
        u      == VScale(u_dash, 1000, u_norm)
        v      == VScale(v_dash, 1000, v_norm)
        w      == VScale(w_dash, 1000, w_norm)
        phi_u  == arccos_phi(UDot(u, w))
        phi_v  == arccos_phi(UDot(w, v))
        uxw    == UCross(u, w)
        vxw    == UCross(v, w)
        cos_dihed == NDiv(NMul(VDot(uxw, vxw), 1000),
                          NMul(Sin(phi_u), Sin(phi_v)))
        sin2_u == NDiv(NMul(Sin(phi_u), Sin(phi_u)), 1000)
        sin2_v == NDiv(NMul(Sin(phi_v), Sin(phi_v)), 1000)
        first_term  == VScale(uxw, 100000, NMul(u_norm, sin2_u))
        second_term == VScale(vxw, 100000, NMul(v_norm, sin2_v))
        third_term  ==
            VSub(VScale(uxw, NMul(Cos(phi_u), 100), NMul(w_norm, sin2_u)),
                 VScale(vxw, NMul(Cos(phi_v), 100), NMul(w_norm, sin2_v)))
    IN  [val  |-> arccos_dihedral_rad(cos_dihed),
         grad |-> Row(Len(xyz),
                      (m :> first_term)
                      @@ (n :> VNeg(second_term))
                      @@ (o :> VAdd(VNeg(first_term), third_term))
                      @@ (p :> VSub(second_term, third_term)))]

\* PrimitiveCoord(ind, val, grad)
PrimitiveCoord(ind, vg) == [inds |-> ind, val |-> vg.val, grad |-> vg.grad]

\* Variant for C28: the bends put before the stretches.
calculate_BendsFirst(xyz, bonds, bends, dihedrals) ==
    SeqMap(bends, LAMBDA ind : PrimitiveCoord(ind, calc_bend(xyz, ind)))
    \o SeqMap(bonds, LAMBDA ind : PrimitiveCoord(ind, calc_stretch(xyz, ind)))
    \o SeqMap(dihedrals, LAMBDA ind : PrimitiveCoord(ind, calc_dihedral(xyz, ind)))

\* calculate(coords): all stretches, then all bends, then all dihedrals.
calculate(xyz, bonds, bends, dihedrals) ==
    SeqMap(bonds, LAMBDA ind : PrimitiveCoord(ind, calc_stretch(xyz, ind)))
    \o SeqMap(bends, LAMBDA ind : PrimitiveCoord(ind, calc_bend(xyz, ind)))
    \o SeqMap(dihedrals, LAMBDA ind : PrimitiveCoord(ind, calc_dihedral(xyz, ind)))

\* calculate(coords, attr="val")
calculate_val(xyz, bonds, bends, dihedrals) ==
    SeqMap(calculate(xyz, bonds, bends, dihedrals), LAMBDA c : c.val)

\* ------------------------------------------------------------------ set_rho

\* get_alpha in 1/10000.
get_alpha(atom1, atom2) ==
    LET first_period == {"h", "he"}
    IN  IF atom1 \in first_period /\ atom2 \in first_period THEN 10000
        ELSE IF atom1 \in first_period \/ atom2 \in first_period THEN 3949
        ELSE 2800

\* 1000 * exp(e / 1000): Taylor series to e^4 on [-1, 1], scaled by
\* exp(-1) = 0.368 and exp(1) = 2.718 outside.
RECURSIVE Exp(_)
Exp(e) ==
    IF e < 0 - 1000 THEN (Exp(e + 1000) * 368) \div 1000
    ELSE IF e > 1000 THEN (Exp(e - 1000) * 2718) \div 1000
    ELSE LET t4 == 1000 + NDiv(e, 4)
             t3 == 1000 + NDiv(e * t4, 3000)
             t2 == 1000 + NDiv(e * t3, 2000)
         IN  1000 + NDiv(e * t2, 1000)

\* numpy broadcasting of two vectors of lengths a and b: the length of the
\* result, -1 when the shapes do not broadcast (ValueError).
BroadcastLen(a, b) ==
    IF a = b THEN a ELSE IF a = 1 THEN b ELSE IF b = 1 THEN a ELSE 0 - 1

\* Element k (1-based) of a vector of length len broadcast to length n.
BroadcastAt(v, k) == IF Len(v) = 1 THEN v[1] ELSE v[k]

\* squareform of a vector: the side d of the matrix, d * (d - 1) / 2 = len,
\* -1 when there is none (ValueError).
SquareSide(len) ==
    LET ds == {d \in 1..(len + 2) : d * (d - 1) = 2 * len}
    IN  IF ds = {} THEN 0 - 1 ELSE CHOOSE d \in ds : TRUE

\* Index (1-based) of pair (i, j), i < j, in the condensed vector of side d.
CondensedIndex(i, j, d) == (i * (2 * d - i - 1)) \div 2 + (j - i)

\* set_rho: the exception it raises ("none" if it returns) and self.rho,
\* a matrix with entries in 1/1000 indexed by 0-based atom pairs.
set_rho(ats, xyz) ==
    LET n         == Len(ats)
        pairs     == AtomPairs(n)
        alphas    == SeqMap(pairs, LAMBDA p : get_alpha(ats[p[1] + 1], ats[p[2] + 1]))
        cov_radii == [k \in 1..n |-> CR[ats[k]]]
        cdm       == SeqMap(pairs, LAMBDA p : Dist2(xyz[p[1] + 1], xyz[p[2] + 1]))
        len1      == BroadcastLen(Len(cov_radii), Len(cdm))
        len2      == IF len1 < 0 THEN len1 ELSE BroadcastLen(Len(alphas), len1)
        expo(k)   == NDiv(BroadcastAt(alphas, k)
                          * NDiv(BroadcastAt(cov_radii, k) * BroadcastAt(cov_radii, k)
                                 - BroadcastAt(cdm, k), 10),
                          10000)
        d         == IF len2 < 0 THEN len2 ELSE SquareSide(len2)
    IN  IF d < 0 THEN [err |-> "ValueError", rho |-> <<>>]
        ELSE [err |-> "none",
              rho |-> [i \in 0..(d - 1) |-> [j \in 0..(d - 1) |->
                         IF i = j THEN 0
                         ELSE Exp(expo(CondensedIndex(IF i < j THEN i ELSE j,
                                                      IF i < j THEN j ELSE i, d)))]]]

\* -------------------------------------------------------------- B and B_inv

\* property B: np.array([c.grad for c in self._coords])
B_of(cs) == SeqMap(cs, LAMBDA c : c.grad)

IsFiniteMatrix(M) ==
    \A r \in 1..Len(M) : \A c \in 1..Len(M[r]) : ~IsNaN(M[r][c])

\* property B_inv: np.linalg.pinv(B.dot(B.T)).dot(B). The pseudo-inverse is
\* not evaluated: it is kept as a function of the matrix it is taken of.
B_inv_of(cs) == [pinv_of |-> B_of(cs), finite |-> IsFiniteMatrix(B_of(cs))]

\* ---------------------------------------------------------------- transform

\* range(25)
Budget == 25

\* Contents of the step array a caller hands to transform: no displacement,
\* or DqUnit along the first primitive.
DqUnit == 5

StepInputs(np) ==
    {[k \in 1..np |-> 0], [k \in 1..np |-> IF k = 1 THEN DqUnit ELSE 0]}

\* Length, in 1/100 bohr, of a non-zero Cartesian step of the model.
StepLen == 1

IsZeroVector(v) == \A k \in 1..Len(v) : v[k] = 0

HasNaN(v) == \E k \in 1..Len(v) : IsNaN(v[k])

\* cartesian_step = B_inv.T.dot(last_step), as n rows. The product is linear:
\* a zero last_step gives the zero step and a non-finite operand a non-finite
\* step. Otherwise the model draws the step: zero, or the last atom moved by
\* StepLen along x.
CartesianSteps(binv, ls, n) ==
    IF ~binv.finite \/ HasNaN(ls) THEN {[k \in 1..n |-> NaNVec]}
    ELSE IF IsZeroVector(ls) THEN {[k \in 1..n |-> Zero3]}
    ELSE {[k \in 1..n |-> Zero3],
          [k \in 1..n |-> IF k = n THEN <<StepLen, 0, 0>> ELSE Zero3]}

\* rms(coords1, coords2) < cart_rms_thresh, with cart_rms_thresh = 1e-6 bohr:
\* mean((c1 - c2)**2) < 1e-8 in units of (1/100 bohr)**2. A comparison with a
\* non-finite rms is false.
RmsBelowThresh(c1, c2) ==
    LET d     == [k \in 1..Len(c1) |-> VSub(c1[k], c2[k])]
        sumsq == SumSeq([k \in 1..Len(c1) |-> VDot(d[k], d[k])])
    IN  /\ \A k \in 1..Len(c1) : ~HasNaN(d[k])
        /\ sumsq * 10000 * 10000 < 3 * Len(c1)

\* Variant for C24: the change of the values is added, not subtracted.
Residual_Added(ls, new_vals, old_vals) ==
    [k \in 1..Len(ls) |-> NAdd(ls[k], NSub(new_vals[k], old_vals[k]))]

\* last_step -= new_vals - last_vals
Residual(ls, new_vals, old_vals) ==
    [k \in 1..Len(ls) |-> NSub(ls[k], NSub(new_vals[k], old_vals[k]))]

\* Variant for C6: the loop without its break.
LoopEnds_NoBreak(below, done) == done = Budget

\* The loop is left after an iteration: by break, or with range(25) used up.
LoopEnds(below, done) == below \/ done = Budget

\* transform has no return statement: it returns None, converged or not.
ReturnValue(conv) == "None"

\* ---------------------------------------------------- set_delocalized_vectors

\* Attributes an instance of DelocalizedCoords has after __init__: those set
\* by RedundantCoords.__init__ and the properties and methods of the classes.
InstanceAttributes ==
    {"geom", "_coords", "bond_indices", "bending_indices", "dihedral_indices",
     "rho", "B", "B_inv", "append", "extend", "set_rho", "merge_fragments",
     "connect_fragments", "set_bond_indices", "sort_by_central",
     "set_bending_indices", "set_dihedral_indices", "set_primitive_indices",
     "calculate", "calculate_val_diffs", "calc_stretch", "calc_bend",
     "calc_dihedral", "transform", "set_delocalized_vectors", "get_delocalized"}

\* Attributes of the instance that can be assigned: B and B_inv are
\* properties without a setter.
ReadOnlyAttributes == {"B", "B_inv"}

\* non_zero_inds = np.where(abs(w) > thresh)[0] for the eigenvalues w of
\* G = B.dot(B.T) as eigh returns them, in ascending order: G is positive
\* semidefinite, so the k eigenvalues above thresh are the last k of np.
NonZeroInds(np, k) == (np - k + 1)..np

\* Variant for C10: the vectors stored whatever their number, nothing raised.
set_delocalized_vectors_Unchecked(n, non_zero_inds, old) ==
    [err |-> "none", delocalized_vectors |-> <<non_zero_inds>>]

\* set_delocalized_vectors, given the indices non_zero_inds of the
\* eigenvalues of G with abs(w) > thresh: the exception raised ("none" if it
\* returns) and self.delocalized_vectors when it ends (old: its value before),
\* as <<the indices of the vectors kept>>, <<>> while the attribute is not set.
set_delocalized_vectors(n, non_zero_inds, old) ==
    IF "B_prim" \notin InstanceAttributes
    THEN [err |-> "AttributeError", delocalized_vectors |-> old]
    ELSE IF Cardinality(non_zero_inds) # 3 * n - 6
    THEN [err |-> "AssertionError", delocalized_vectors |-> old]
    ELSE IF "B" \in ReadOnlyAttributes
    THEN [err |-> "AttributeError", delocalized_vectors |-> <<non_zero_inds>>]
    ELSE [err |-> "none", delocalized_vectors |-> <<non_zero_inds>>]

\* ------------------------------------------------------------------- state

VARIABLES
    atoms,              \* geom.atoms, lower-cased element symbols
    coords,             \* geom.coords as N rows <<x, y, z>>
    pc,                 \* position in the engine's life cycle
    op,                 \* the method called last
    err,                \* exception raised by the last call, "none" if none
    bond_indices,       \* self.bond_indices
    bending_indices,    \* self.bending_indices
    dihedral_indices,   \* self.dihedral_indices
    int_coords,         \* self._coords
    rho,                \* self.rho
    delocalized_vectors,\* self.delocalized_vectors: <<indices of the kept vectors>>,
                        \* <<>> while the attribute is not set
    step,               \* the caller's step array handed to transform
    B_inv,              \* transform: local B_inv
    last_step,          \* transform: local last_step
    last_coords,        \* transform: local last_coords
    last_vals,          \* transform: local last_vals
    i,                  \* transform: iterations of the loop run so far
    converged,          \* transform: the loop was left by break ("Converged!")
    ret,                \* value returned by the last transform call
    calls,              \* number of transform calls made
    x0,                 \* history: geom.coords when transform was called
    dq0,                \* history: contents of step when transform was called
    nbelow,             \* history: iterations whose rms was below the threshold
    nz0,                \* history: non_zero_inds found by set_delocalized_vectors
                        \* if that is the last call made, {} otherwise
    probe               \* a function of the module applied to an argument on
                        \* its own: [kind, site, arg, out]

vars == <<atoms, coords, pc, op, err, bond_indices, bending_indices,
          dihedral_indices, int_coords, rho, delocalized_vectors, step, B_inv,
          last_step, last_coords, last_vals, i, converged, ret, calls, x0, dq0,
          nbelow, nz0, probe>>

indexVars == <<bond_indices, bending_indices, dihedral_indices>>

transformVars == <<step, B_inv, last_step, last_coords, last_vals, i, converged,
                   ret, calls, x0, dq0, nbelow>>

N == Len(atoms)

\* Geometries: 1..MaxAtoms atoms of Elements at distinct Points, the first
\* atom at the origin.
Init ==
    /\ \E n \in 1..MaxAtoms :
          /\ atoms \in [1..n -> Elements]
          /\ coords \in Geometries(n)
    /\ pc = "new"
    /\ op = "none"
    /\ err = "none"
    /\ bond_indices = <<>>
    /\ bending_indices = <<>>
    /\ dihedral_indices = <<>>
    /\ int_coords = <<>>
    /\ rho = <<>>
    /\ delocalized_vectors = <<>>
    /\ step = <<>>
    /\ B_inv = "unset"
    /\ last_step = <<>>
    /\ last_coords = <<>>
    /\ last_vals = <<>>
    /\ i = 0
    /\ converged = FALSE
    /\ ret = "unset"
    /\ calls = 0
    /\ x0 = <<>>
    /\ dq0 = <<>>
    /\ nbelow = 0
    /\ nz0 = {}
    /\ probe = [kind |-> "none", site |-> "none", arg |-> 0, out |-> 0]

\* ------------------------------------------------------------- construction

\* __init__, set_primitive_indices: self.set_bond_indices()
SetBondIndices ==
    /\ pc = "new"
    /\ \E h \in HashOrders :
          LET r == set_bond_indices(atoms, coords, h)
          IN  /\ bond_indices' = r.bond_indices
              /\ err' = r.err
              /\ pc' = IF r.err = "none" THEN "bonds" ELSE "failed"
    /\ op' = "set_bond_indices"
    /\ UNCHANGED <<probe, atoms, coords, bending_indices, dihedral_indices, int_coords,
                   rho, delocalized_vectors, transformVars, nz0>>

\* set_primitive_indices: self.set_bending_indices()
SetBendingIndices ==
    /\ pc = "bonds"
    /\ \E hb \in HashOrders, hi \in HashOrders :
          bending_indices' = set_bending_indices(bond_indices, hb, hi)
    /\ pc' = "bends"
    /\ op' = "set_bending_indices"
    /\ UNCHANGED <<probe, atoms, coords, err, bond_indices, dihedral_indices,
                   int_coords, rho, delocalized_vectors, transformVars, nz0>>

\* set_primitive_indices: self.set_dihedral_indices()
SetDihedralIndices ==
    /\ pc = "bends"
    /\ dihedral_indices' = set_dihedral_indices(bond_indices, bending_indices)
    /\ pc' = "dihedrals"
    /\ op' = "set_dihedral_indices"
    /\ UNCHANGED <<probe, atoms, coords, err, bond_indices, bending_indices, int_coords,
                   rho, delocalized_vectors, transformVars, nz0>>

\* __init__: self._coords = self.calculate(self.geom.coords)
Calculate ==
    /\ pc = "dihedrals"
    /\ int_coords' = calculate(coords, bond_indices, bending_indices,
                               dihedral_indices)
    /\ pc' = "calculated"
    /\ op' = "calculate"
    /\ UNCHANGED <<probe, atoms, coords, err, indexVars, rho, delocalized_vectors,
                   transformVars, nz0>>

\* __init__: self.set_rho()
SetRho ==
    /\ pc = "calculated"
    /\ LET r == set_rho(atoms, coords)
       IN  /\ rho' = r.rho
           /\ err' = r.err
           /\ pc' = IF r.err = "none" THEN "ready" ELSE "failed"
    /\ op' = "set_rho"
    /\ UNCHANGED <<probe, atoms, coords, indexVars, int_coords, delocalized_vectors,
                   transformVars, nz0>>

Next ==
    \/ SetBondIndices
    \/ SetBendingIndices
    \/ SetDihedralIndices
    \/ Calculate
    \/ SetRho

Spec == Init /\ [][Next]_vars

\* ------------------------------------------------------ the engine in use

\* Largest number of transform calls on one engine.
MaxCalls == 1

\* transform, lines before the loop.
TransformCall ==
    /\ pc = "ready"
    /\ calls < MaxCalls
    /\ op' = "transform"
    /\ calls' = calls + 1
    /\ \E dq \in StepInputs(Len(int_coords)), pinv \in {"nan", "LinAlgError"} :
          IF ~B_inv_of(int_coords).finite /\ pinv = "LinAlgError"
          THEN /\ err' = "LinAlgError"
               /\ pc' = "ready"
               /\ UNCHANGED <<step, B_inv, last_step, last_coords, last_vals, i,
                              converged, ret, x0, dq0, nbelow>>
          ELSE /\ err' = "none"
               /\ pc' = "loop"
               /\ B_inv' = B_inv_of(int_coords)
               /\ step' = dq
               /\ last_step' = dq
               /\ last_coords' = coords
               /\ last_vals' = calculate_val(coords, bond_indices,
                                             bending_indices, dihedral_indices)
               /\ i' = 0
               /\ converged' = FALSE
               /\ ret' = "unset"
               /\ x0' = coords
               /\ dq0' = dq
               /\ nbelow' = 0
    /\ nz0' = {}
    /\ UNCHANGED <<probe, atoms, coords, indexVars, int_coords, rho, delocalized_vectors>>

\* transform, one iteration of the loop. last_step is the caller's array
\* (last_step = step) and "last_step -= ..." updates it in place.
TransformIter ==
    /\ pc = "loop"
    /\ \E cartesian_step \in CartesianSteps(B_inv, last_step, N) :
          LET new_coords == [k \in 1..N |-> VAdd(last_coords[k], cartesian_step[k])]
              below      == RmsBelowThresh(last_coords, new_coords)
              new_vals   == calculate_val(new_coords, bond_indices,
                                          bending_indices, dihedral_indices)
              residual   == Residual(last_step, new_vals, last_vals)
          IN  /\ last_step' = residual
              /\ step' = residual
              /\ last_coords' = new_coords
              /\ last_vals' = new_vals
              /\ i' = i + 1
              /\ nbelow' = IF below THEN nbelow + 1 ELSE nbelow
              /\ converged' = below
              /\ pc' = IF LoopEnds(below, i + 1) THEN "write" ELSE "loop"
    /\ UNCHANGED <<probe, atoms, coords, op, err, indexVars, int_coords, rho,
                   delocalized_vectors, B_inv, ret, calls, x0, dq0, nz0>>

\* transform, after the loop: self.geom.coords = last_coords, and the return.
TransformReturn ==
    /\ pc = "write"
    /\ coords' = last_coords
    /\ ret' = ReturnValue(converged)
    /\ pc' = "ready"
    /\ UNCHANGED <<probe, atoms, op, err, indexVars, int_coords, rho,
                   delocalized_vectors, step, B_inv, last_step, last_coords,
                   last_vals, i, converged, calls, x0, dq0, nbelow, nz0>>

\* DelocalizedCoords.set_delocalized_vectors()
SetDelocalizedVectors ==
    /\ pc = "ready"
    /\ \E k \in 0..Len(int_coords) :
          LET r == set_delocalized_vectors(N, NonZeroInds(Len(int_coords), k),
                                           delocalized_vectors)
          IN  /\ err' = r.err
              /\ delocalized_vectors' = r.delocalized_vectors
              /\ nz0' = NonZeroInds(Len(int_coords), k)
    /\ op' = "set_delocalized_vectors"
    /\ UNCHANGED <<probe, atoms, coords, pc, indexVars, int_coords, rho, transformVars>>

\* Engines of three atoms of one element: __init__ returns for three atoms
\* only (set_rho).
InitEngine == Init /\ N = 3 /\ \A k \in 1..N : atoms[k] = atoms[1]

NextEngine ==
    \/ Next
    \/ TransformCall
    \/ TransformIter
    \/ TransformReturn
    \/ SetDelocalizedVectors

SpecEngine == InitEngine /\ [][NextEngine]_vars

\* ------------------------------------------- functions applied on their own

\* How far beyond [-1000, 1000] the rounded dot product of two unit vectors
\* handed to arccos may lie.
Overshoot == 2

\* Dot products of unit vectors as floating point yields them, in 1/1000.
CosArgs == (0 - 1000 - Overshoot)..(1000 + Overshoot)

engineVars == <<atoms, coords, pc, op, err, bond_indices, bending_indices,
                dihedral_indices, int_coords, rho, delocalized_vectors, step,
                B_inv, last_step, last_coords, last_vals, i, converged, ret,
                calls, x0, dq0, nbelow, nz0>>

\* No engine is constructed.
NoEngine ==
    /\ atoms = <<>>
    /\ coords = <<>>
    /\ pc = "function"
    /\ op = "none"
    /\ err = "none"
    /\ bond_indices = <<>>
    /\ bending_indices = <<>>
    /\ dihedral_indices = <<>>
    /\ int_coords = <<>>
    /\ rho = <<>>
    /\ delocalized_vectors = <<>>
    /\ step = <<>>
    /\ B_inv = "unset"
    /\ last_step = <<>>
    /\ last_coords = <<>>
    /\ last_vals = <<>>
    /\ i = 0
    /\ converged = FALSE
    /\ ret = "unset"
    /\ calls = 0
    /\ x0 = <<>>
    /\ dq0 = <<>>
    /\ nbelow = 0
    /\ nz0 = {}

\* An argument of the given kind, no function applied to it yet.
Argument(kind, arg) == [kind |-> kind, site |-> "none", arg |-> arg, out |-> 0]

\* The function of the given site applied to the argument.
ApplyAt(kind, site, out) ==
    /\ pc = "function"
    /\ probe.kind = kind
    /\ probe.site = "none"
    /\ probe' = [probe EXCEPT !.site = site, !.out = out]
    /\ UNCHANGED engineVars

\* Largest number of atoms and of bonds in a bond list handed to
\* merge_fragments.
MergeAtoms == 5

MergeBonds == 3

\* Bond lists: distinct pairs <<i, j>>, i < j, in any order.
BondLists ==
    UNION {InjSeqs(Range(AtomPairs(MergeAtoms)), n) : n \in 1..MergeBonds}

\* set_bond_indices: if len(fragments) != 1
TakesForcedBranch(fragments) == Len(fragments) # 1

\* set_bond_indices: bond_ind_sets and fragments, and the branch taken on them.
MergeFragments ==
    ApplyAt("bonds", "merge_fragments",
            LET fragments == merge_fragments(SeqMap(probe.arg, SetOfTuple))
            IN  [fragments |-> fragments, forced |-> TakesForcedBranch(fragments)])

\* Fragment lists handed to connect_fragments: disjoint sets of two or more
\* of six atoms, which are at distinct Points, the first at the origin.
FragmentLists ==
    {<<{0, 1}, {2, 3}, {4, 5}>>, <<{0, 1}, {2, 3, 4, 5}>>, <<{0, 1, 2}, {3, 4, 5}>>}

FragmentArgs ==
    UNION {{[xyz |-> xyz, fragments |-> fragments] :
                xyz \in Geometries(Cardinality(UNION Range(fragments)))} :
           fragments \in FragmentLists}

ConnectFragments ==
    \E h \in HashOrders :
        ApplyAt("fragments", "connect_fragments",
                connect_fragments(probe.arg.xyz, probe.arg.fragments, h))

ArccosRad == ApplyAt("cos", "rad", arccos_rad(probe.arg))

ArccosAngleRad == ApplyAt("cos", "angle_rad", arccos_angle_rad(probe.arg))

ArccosPhi == ApplyAt("cos", "phi", arccos_phi(probe.arg))

ArccosDihedralRad == ApplyAt("cos", "dihedral_rad", arccos_dihedral_rad(probe.arg))

InitFunctions ==
    /\ NoEngine
    /\ probe \in {Argument("cos", c) : c \in CosArgs}
                \cup {Argument("bonds", b) : b \in BondLists}
                \cup {Argument("fragments", f) : f \in FragmentArgs}

NextFunctions ==
    \/ ArccosRad
    \/ ArccosAngleRad
    \/ ArccosPhi
    \/ ArccosDihedralRad
    \/ MergeFragments
    \/ ConnectFragments

SpecFunctions == InitFunctions /\ [][NextFunctions]_vars

\* ===================================================================== claims

\* ------------------------------------------------------ graph vocabulary

\* Atoms joined to an atom of S by a path of bonds.
RECURSIVE Reach(_, _)
Reach(bonds, S) ==
    LET T == S \cup {a \in UNION {SetOfTuple(bonds[k]) : k \in 1..Len(bonds)} :
                        \E k \in 1..Len(bonds) :
                            a \in SetOfTuple(bonds[k]) /\ SetOfTuple(bonds[k]) \cap S # {}}
    IN  IF T = S THEN S ELSE Reach(bonds, T)

\* Connected components of the graph of bonds over the atoms it mentions.
Fragments(bonds) ==
    {Reach(bonds, {a}) : a \in UNION {SetOfTuple(bonds[k]) : k \in 1..Len(bonds)}}

\* Every atom 0..n-1 is in a bond and all atoms are in one fragment: the
\* fragment of atom 0 holds them all.
ConnectedOverAll(bonds, n) ==
    /\ \A a \in 0..(n - 1) : \E k \in 1..Len(bonds) : a \in SetOfTuple(bonds[k])
    /\ Reach(bonds, {0}) = 0..(n - 1)

\* set_bond_indices has been called and has returned without raising.
BondsDone == pc # "new" /\ ~(op = "set_bond_indices" /\ err # "none")

\* set_bond_indices has been called and has raised.
BondsFailed == pc = "failed" /\ op = "set_bond_indices" /\ err # "none"

\* -------------------------------------------------------------------- C1

\* C1: whenever set_bond_indices has returned without raising, bond_indices
\* is a connected graph over all atoms 0..N-1 (every atom in a bond, one
\* fragment); whenever the bonds found by distance are not such a graph, the
\* call has raised and construction has stopped there.
C1_ConnectedOrFailed ==
    /\ BondsDone => ConnectedOverAll(bond_indices, N)
    /\ pc # "new" =>
          \/ BondsDone
          \/ BondsFailed /\ err \in {"IndexError", "NameError", "ValueError",
                                     "AssertionError"}
    /\ (pc # "new" /\ ~ConnectedOverAll(DetectedBonds(atoms, coords), N))
          => BondsFailed

\* Construction went on past set_bond_indices for four atoms; and: a geometry
\* whose bonds are connected but leave an atom out was rejected by the assert.
C1_Witness ==
    /\ pc = "bonds"
    /\ N = 4
    /\ Len(bond_indices) >= 3

C1_WitnessRejected ==
    /\ BondsFailed
    /\ err = "AssertionError"

\* -------------------------------------------------------------------- C2

\* C2 (as claimed): for a geometry whose distance-detected bonds form more
\* than one fragment, set_bond_indices adds inter-fragment bonds and returns
\* with a single fragment instead of aborting.
C2_FragmentsGetConnected ==
    (pc # "new" /\ Cardinality(Fragments(DetectedBonds(atoms, coords))) > 1)
        => /\ BondsDone
           /\ Cardinality(Fragments(bond_indices)) = 1
           /\ Len(bond_indices) > Len(DetectedBonds(atoms, coords))

\* -------------------------------------------------------------------- C3

BendSet(k) == SetOfTuple(bending_indices[k])

DihedralSet(k) == SetOfTuple(dihedral_indices[k])

IndexingDone == pc \in {"dihedrals", "calculated", "ready"}
                \/ (pc = "failed" /\ op = "set_rho")

\* C3 (as claimed): after primitive indexing no two bends share the same
\* unordered atom set and no two dihedrals share the same unordered atom set.
C3_NoSharedAtomSets ==
    IndexingDone =>
        /\ \A a, b \in 1..Len(bending_indices) : a # b => BendSet(a) # BendSet(b)
        /\ \A a, b \in 1..Len(dihedral_indices) :
              a # b => DihedralSet(a) # DihedralSet(b)

\* C3 (amended): after primitive indexing no two bends share both the central
\* atom and the unordered atom set (the three bends of a 3-membered ring share
\* the set and differ in the centre), and no two dihedrals share the same
\* unordered atom set.
C3_NoSharedAtomSetsAmended ==
    IndexingDone =>
        /\ \A a, b \in 1..Len(bending_indices) :
              a # b => \/ BendSet(a) # BendSet(b)
                       \/ bending_indices[a][2] # bending_indices[b][2]
        /\ \A a, b \in 1..Len(dihedral_indices) :
              a # b => DihedralSet(a) # DihedralSet(b)

\* Indexing finished for a graph with a 3-membered ring (two bends over one
\* atom set) that also has dihedrals.
C3_Witness ==
    /\ IndexingDone
    /\ \E a, b \in 1..Len(bending_indices) : a # b /\ BendSet(a) = BendSet(b)
    /\ Len(dihedral_indices) > 0

\* ------------------------------------------------------- transform, C4..C9

\* The last call was transform and it has returned normally.
Returned == pc = "ready" /\ op = "transform" /\ err = "none" /\ ret # "unset"

\* How the loop of the last transform call was left.
LeftByBreak == converged /\ nbelow = 1

LeftByBudget == ~converged /\ nbelow = 0 /\ i = Budget

\* -------------------------------------------------------------------- C4

\* C4 (as claimed): after transform returns the caller can tell whether the
\* iteration converged: what a call returns after using up the budget without
\* convergence differs from what a converged call returns.
C4_StatusTellsConvergence ==
    (Returned /\ ~converged) => ret # ReturnValue(TRUE)

\* -------------------------------------------------------------------- C5

\* C5 (as claimed): transform writes the geometry only when the iteration
\* converged; after a call that used up the budget without convergence the
\* geometry still holds the starting coordinates x0.
C5_WriteOnlyWhenConverged ==
    (Returned /\ ~converged) => coords = x0

\* -------------------------------------------------------------------- C6

\* C6: transform runs at most 25 iterations; the first iteration whose
\* Cartesian rms is below the threshold is the last one; a call that uses up
\* the budget without convergence returns normally, nothing is raised in or
\* after the loop.
C6_BoundedLoop ==
    /\ i <= Budget
    /\ pc = "loop" => (i < Budget /\ nbelow = 0 /\ err = "none")
    /\ pc = "write" => (err = "none" /\ (LeftByBreak \/ LeftByBudget))
    /\ (pc = "ready" /\ op = "transform" /\ err = "none") =>
          (ret = "None" /\ (LeftByBreak \/ LeftByBudget))

\* A call used up all 25 iterations without convergence and returned.
C6_Witness == Returned /\ LeftByBudget

\* -------------------------------------------------------------------- C7

\* C7 (as claimed): whenever the engine is idle, the primitive values and
\* gradients, B and B_inv it exposes are those evaluated at the geometry's
\* current coordinates, in particular after a transform call moved them.
C7_PrimitivesAreCurrent ==
    pc = "ready" =>
        LET now == calculate(coords, bond_indices, bending_indices,
                             dihedral_indices)
        IN  /\ int_coords = now
            /\ B_of(int_coords) = B_of(now)
            /\ B_inv_of(int_coords) = B_inv_of(now)

\* -------------------------------------------------------------------- C9

\* C9 (as claimed): transform changes no caller-visible state but the
\* geometry's coordinates: the step array handed in holds after the call the
\* values it held before.
C9_StepArrayUntouched ==
    Returned => step = dq0

\* ------------------------------------------------------------------- C10

\* C10: a stored basis has exactly 3N-6 vectors; a call of
\* set_delocalized_vectors either fails or stores the 3N-6 vectors above the
\* threshold; a call that finds another number of them fails and stores
\* nothing.
C10_BasisSizeOrFailure ==
    /\ delocalized_vectors # <<>> =>
          Cardinality(delocalized_vectors[1]) = 3 * N - 6
    /\ op = "set_delocalized_vectors" =>
          \/ err # "none"
          \/ delocalized_vectors = <<nz0>> /\ Cardinality(nz0) = 3 * N - 6
    /\ (op = "set_delocalized_vectors" /\ Cardinality(nz0) # 3 * N - 6) =>
          (err # "none" /\ delocalized_vectors = <<>>)

\* set_delocalized_vectors was called with a number of vectors other than
\* 3N-6 above the threshold, failed and stored nothing.
C10_Witness ==
    /\ op = "set_delocalized_vectors"
    /\ Cardinality(nz0) # 3 * N - 6
    /\ Cardinality(nz0) > 0
    /\ err = "AttributeError"
    /\ delocalized_vectors = <<>>

\* ------------------------------------------------------------------- C11

\* Atoms 0..n-1 that are in none of the bonds.
Unbonded(bonds, n) ==
    {a \in 0..(n - 1) : \A k \in 1..Len(bonds) : a \notin SetOfTuple(bonds[k])}

\* C11 (as claimed): when an atom is in no bond at the end of bond
\* determination (an isolated atom, or no bond at all), construction aborts
\* with the unbonded-atoms failure, the assertion "Found unbonded atoms!".
C11_UnbondedAtomsFailure ==
    (pc # "new" /\ Unbonded(DetectedBonds(atoms, coords), N) # {})
        => (BondsFailed /\ err = "AssertionError")

\* ------------------------------------------------------------------- C12

\* rho is a symmetric n x n matrix with a zero diagonal.
SymmetricZeroDiagonal(mat, n) ==
    /\ DOMAIN mat = 0..(n - 1)
    /\ \A a \in 0..(n - 1) : DOMAIN mat[a] = 0..(n - 1) /\ mat[a][a] = 0
    /\ \A a, b \in 0..(n - 1) : mat[a][b] = mat[b][a]

\* C12 (as claimed): for every geometry of N >= 2 atoms whose bond graph is
\* valid, construction completes set_rho and leaves rho a symmetric N x N
\* matrix with a zero diagonal.
C12_RhoForEveryValidGraph ==
    (N >= 2 /\ BondsDone /\ op = "set_rho")
        => (pc = "ready" /\ err = "none" /\ SymmetricZeroDiagonal(rho, N))

\* ------------------------------------------------------------------- C13

\* C13: for three atoms whose detected bonds are exactly two, (O,H1) and
\* (O,H2) with O the atom they share, construction yields these 2 stretches,
\* exactly 1 bend with O in the middle and H1, H2 as terminals, no dihedral,
\* and B has shape (3, 9).
C13_TwoBondsOneBend ==
    (N = 3 /\ pc \in {"calculated", "ready"}
     /\ Len(DetectedBonds(atoms, coords)) = 2) =>
        LET b  == DetectedBonds(atoms, coords)
            O  == CHOOSE a \in SetOfTuple(b[1]) \cap SetOfTuple(b[2]) : TRUE
            Hs == (SetOfTuple(b[1]) \cup SetOfTuple(b[2])) \ {O}
        IN  /\ bond_indices = b
            /\ Len(bending_indices) = 1
            /\ bending_indices[1][2] = O
            /\ {bending_indices[1][1], bending_indices[1][3]} = Hs
            /\ dihedral_indices = <<>>
            /\ [k \in 1..Len(int_coords) |-> int_coords[k].inds]
                  = bond_indices \o bending_indices
            /\ Len(B_of(int_coords)) = 3
            /\ \A r \in 1..3 : Len(B_of(int_coords)[r]) = 9

\* An engine was constructed for three atoms with two detected bonds.
C13_Witness ==
    /\ N = 3
    /\ pc = "ready"
    /\ Len(DetectedBonds(atoms, coords)) = 2
    /\ Len(bending_indices) = 1

\* ------------------------------------------------------------------- C14

\* Atoms bonded to atom a.
Neighbours(bonds, a) ==
    {b \in UNION {SetOfTuple(bonds[k]) : k \in 1..Len(bonds)} :
        b # a /\ \E k \in 1..Len(bonds) : SetOfTuple(bonds[k]) = {a, b}}

\* The bonds are A-B, B-C, C-D over four atoms and no other.
IsChainOfFour(bonds, n) ==
    /\ n = 4
    /\ Len(bonds) = 3
    /\ ConnectedOverAll(bonds, n)
    /\ \A a \in 0..3 : Cardinality(Neighbours(bonds, a)) <= 2

\* C14: for four atoms whose only bonds are A-B, B-C and C-D, indexing yields
\* exactly two bends, one centred on B over {A,B,C} and one centred on C over
\* {B,C,D}, and exactly one dihedral over the four atoms, ordered along the
\* chain, under every iteration order of the sets.
C14_ChainOfFour ==
    (IndexingDone /\ IsChainOfFour(DetectedBonds(atoms, coords), N)) =>
        LET b == DetectedBonds(atoms, coords)
        IN  /\ bond_indices = b
            /\ Len(bending_indices) = 2
            /\ BendSet(1) # BendSet(2)
            /\ \A k \in 1..2 :
                  /\ Cardinality(Neighbours(b, bending_indices[k][2])) = 2
                  /\ {bending_indices[k][1], bending_indices[k][3]}
                        = Neighbours(b, bending_indices[k][2])
            /\ Len(dihedral_indices) = 1
            /\ DihedralSet(1) = 0..3
            /\ \A j \in 1..3 :
                  dihedral_indices[1][j + 1]
                      \in Neighbours(b, dihedral_indices[1][j])

\* Indexing finished for a chain of four atoms whose ends are not its atoms
\* 0 and 3.
C14_Witness ==
    /\ IndexingDone
    /\ IsChainOfFour(DetectedBonds(atoms, coords), N)
    /\ Len(dihedral_indices) = 1
    /\ Cardinality(Neighbours(bond_indices, 0)) = 2

\* ------------------------------------------------------------------- C15

\* The 3-vector block of atom a (0-based) in a gradient row.
GradBlock(row, a) == <<row[3 * a + 1], row[3 * a + 2], row[3 * a + 3]>>

\* The blocks of the row are finite and sum to the zero vector.
BlocksSumToZero(row, n) ==
    /\ ~HasNaN(row)
    /\ \A c \in 1..3 : SumSeq([a \in 1..n |-> row[3 * (a - 1) + c]]) = 0

\* Every block of an atom outside the index tuple is zero.
ZeroOutside(row, inds, n) ==
    \A a \in (0..(n - 1)) \ SetOfTuple(inds) : GradBlock(row, a) = Zero3

\* C15 (as claimed): for every stretch, bend and dihedral the per-atom blocks
\* of the gradient row sum to the zero vector, and every block of an atom that
\* is not in the primitive's index tuple is zero.
C15_GradientBlocks ==
    \A k \in 1..Len(int_coords) :
        /\ BlocksSumToZero(int_coords[k].grad, N)
        /\ ZeroOutside(int_coords[k].grad, int_coords[k].inds, N)

\* What holds of the rows: those that are finite sum to zero, and all are
\* zero outside their index tuple.
C15_FiniteGradientBlocks ==
    \A k \in 1..Len(int_coords) :
        /\ ~HasNaN(int_coords[k].grad) => BlocksSumToZero(int_coords[k].grad, N)
        /\ ZeroOutside(int_coords[k].grad, int_coords[k].inds, N)

\* ------------------------------------------------------------------- C16

\* C16 (as claimed): every arccos of calc_bend and calc_dihedral (the bend
\* angle, the parallelism test, phi_u and phi_v, the dihedral cosine) gets an
\* argument clamped to [-1, 1], so that a dot product that overshoots 1 in
\* magnitude gives no non-finite value.
C16_ArccosArgumentsClamped ==
    (probe.kind = "cos" /\ probe.site # "none") => ~IsNaN(probe.out)

\* What holds: the one clamped call, that of the dihedral cosine, is finite
\* for every finite argument.
C16_DihedralCosineClamped ==
    (probe.kind = "cos" /\ probe.site = "dihedral_rad") => ~IsNaN(probe.out)

\* ------------------------------------------------------------------- C17

\* u and v of the bend (m, o, n) are parallel or anti-parallel.
UVParallel(xyz, angle_ind) ==
    VCross(VSub(xyz[angle_ind[1] + 1], xyz[angle_ind[2] + 1]),
           VSub(xyz[angle_ind[3] + 1], xyz[angle_ind[2] + 1])) = Zero3

\* C17 (as claimed): for a bend whose u and v are parallel or anti-parallel
\* calc_bend takes the auxiliary-axis branch with an axis not parallel to u,
\* and the gradient it returns is finite.
C17_ParallelBendFinite ==
    pc \in {"calculated", "ready"} =>
        \A k \in 1..Len(int_coords) :
            (Len(int_coords[k].inds) = 3 /\ UVParallel(coords, int_coords[k].inds))
                => ~HasNaN(int_coords[k].grad)

\* What holds on the geometries of the model: an anti-parallel bend (angle pi)
\* has a finite gradient.
C17_AntiParallelBendFinite ==
    pc \in {"calculated", "ready"} =>
        \A k \in 1..Len(int_coords) :
            (Len(int_coords[k].inds) = 3 /\ int_coords[k].val = PiMilli)
                => ~HasNaN(int_coords[k].grad)

\* ------------------------------------------------------------------- C18

\* C18 (as claimed): the fragments merge_fragments returns are pairwise
\* disjoint and are exactly the connected components of the graph of the
\* input bonds, for every input order.
C18_FragmentsAreComponents ==
    probe.site = "merge_fragments" =>
        /\ Range(probe.out.fragments) = Fragments(probe.arg)
        /\ Len(probe.out.fragments) = Cardinality(Fragments(probe.arg))

\* ------------------------------------------------------------------- C19

\* C19: merge_fragments returns a list of exactly one set if and only if the
\* input bonds form a connected graph over the atoms they mention, so that
\* set_bond_indices takes the forced-connection branch exactly when they do
\* not.
C19_OneFragmentIffConnected ==
    probe.site = "merge_fragments" =>
        /\ Len(probe.out.fragments) = 1 <=> Cardinality(Fragments(probe.arg)) = 1
        /\ probe.out.forced <=> Cardinality(Fragments(probe.arg)) > 1

\* merge_fragments has merged three bonds of a connected graph of which the
\* first two share no atom, into one fragment.
C19_Witness ==
    /\ probe.site = "merge_fragments"
    /\ Len(probe.arg) = 3
    /\ SetOfTuple(probe.arg[1]) \cap SetOfTuple(probe.arg[2]) = {}
    /\ Len(probe.out.fragments) = 1
    /\ ~probe.out.forced

\* ------------------------------------------------------------------- C20

\* The pair <<a, b>> is a closest pair of an atom of A and an atom of B.
ClosestBetween(xyz, pair, A, B) ==
    /\ pair[1] \in A
    /\ pair[2] \in B
    /\ \A a \in A, b \in B :
          Dist2(xyz[pair[1] + 1], xyz[pair[2] + 1]) <= Dist2(xyz[a + 1], xyz[b + 1])

\* C20 (as claimed): forced connection adds one bond per merge step, each the
\* closest pair of atoms of different fragments, so that k fragments are
\* joined by exactly k - 1 added bonds.
C20_OneBondPerMergeStep ==
    probe.site = "connect_fragments" =>
        /\ Len(probe.out) = Len(probe.arg.fragments) - 1
        /\ \A k \in 1..Len(probe.out) :
              \E a, b \in 1..Len(probe.arg.fragments) :
                  a # b /\ ClosestBetween(probe.arg.xyz, probe.out[k],
                                          probe.arg.fragments[a],
                                          probe.arg.fragments[b])

\* What holds: connect_fragments returns one closest pair for every two
\* fragments of the list, k (k - 1) / 2 bonds for k fragments.
C20_OneBondPerFragmentPair ==
    probe.site = "connect_fragments" =>
        LET fs == probe.arg.fragments
        IN  /\ 2 * Len(probe.out) = Len(fs) * (Len(fs) - 1)
            /\ \A a, b \in 1..Len(fs) :
                  a < b => \E k \in 1..Len(probe.out) :
                              ClosestBetween(probe.arg.xyz, probe.out[k], fs[a], fs[b])

\* ------------------------------------------------------------------- C21

BendingDone == pc \in {"bends", "dihedrals", "calculated", "ready"}
               \/ (pc = "failed" /\ op = "set_rho")

\* Unordered pairs of distinct bonds of bond_indices that share exactly one
\* atom, each as a set of two atom sets.
BondPairsSharingOne ==
    LET bs == {SetOfTuple(bond_indices[k]) : k \in 1..Len(bond_indices)}
    IN  {{q[1], q[2]} : q \in {p \in bs \X bs : Cardinality(p[1] \cup p[2]) = 3}}

\* Bend k is the bend of the pair P: shared atom in the middle, the two
\* other atoms as terminals.
IsBendOf(k, P) ==
    LET shared == {x \in UNION P : \A b \in P : x \in b}
        all    == UNION P
    IN  /\ {bending_indices[k][2]} = shared
        /\ {bending_indices[k][1], bending_indices[k][3]} = all \ shared

\* C21: after set_bending_indices, bending_indices holds exactly one bend for
\* every unordered pair of distinct bonds that share exactly one atom, with
\* the shared atom in the middle and the two other atoms as terminals, and it
\* holds no other bend.
C21_OneBendPerBondPair ==
    BendingDone =>
        /\ \A P \in BondPairsSharingOne :
              Cardinality({k \in 1..Len(bending_indices) : IsBendOf(k, P)}) = 1
        /\ \A k \in 1..Len(bending_indices) :
              \E P \in BondPairsSharingOne : IsBendOf(k, P)
        /\ Len(bending_indices) = Cardinality(BondPairsSharingOne)

\* Bends were emitted for three or more pairs of bonds, two of which have
\* the same three atoms (a triangle).
C21_Witness ==
    /\ BendingDone
    /\ Len(bending_indices) >= 3
    /\ \E j, k \in 1..Len(bending_indices) : j # k /\ BendSet(j) = BendSet(k)

\* ------------------------------------------------------------------- C22

\* Atoms a and b are the two ends of a bond of bond_indices.
IsBond(a, b) ==
    \E k \in 1..Len(bond_indices) : SetOfTuple(bond_indices[k]) = {a, b}

\* C22: after set_dihedral_indices every dihedral (m, o, p, n) has four
\* distinct atoms and runs along a bonded chain: m-o, o-p and p-n are each
\* a bond of bond_indices (a bond taken as an unordered pair).
C22_DihedralAlongChain ==
    IndexingDone =>
        \A k \in 1..Len(dihedral_indices) :
            LET d == dihedral_indices[k]
            IN  /\ Len(d) = 4
                /\ Cardinality(SetOfTuple(d)) = 4
                /\ IsBond(d[1], d[2])
                /\ IsBond(d[2], d[3])
                /\ IsBond(d[3], d[4])

\* A dihedral was emitted for a bond graph that is not itself a chain: it
\* has four bonds or more.
C22_Witness ==
    /\ IndexingDone
    /\ Len(dihedral_indices) >= 1
    /\ Len(bond_indices) >= 4

\* ------------------------------------------------------------------- C23

\* The (bond, bend) pairs that give a dihedral: the bond holds exactly one
\* of the bend's terminals and not its centre. Each as <<bond, bend>>.
DihedralPairs ==
    {p \in Range(bond_indices) \X Range(bending_indices) :
        /\ Cardinality({p[2][1], p[2][3]} \cap SetOfTuple(p[1])) = 1
        /\ p[2][2] \notin SetOfTuple(p[1])}

PairAtoms(p) == SetOfTuple(p[1]) \cup SetOfTuple(p[2])

\* C23: after set_dihedral_indices, for every (bond, bend) pair in which the
\* bond holds exactly one terminal of the bend and not its centre, exactly
\* one dihedral has the atoms of the bond and the bend as its atom set; and
\* every dihedral has the atom set of such a pair.
C23_OneDihedralPerAtomSet ==
    IndexingDone =>
        /\ \A p \in DihedralPairs :
              Cardinality({k \in 1..Len(dihedral_indices) :
                              DihedralSet(k) = PairAtoms(p)}) = 1
        /\ \A k \in 1..Len(dihedral_indices) :
              \E p \in DihedralPairs : DihedralSet(k) = PairAtoms(p)

\* Several (bond, bend) pairs gave the same four atoms in different orders,
\* and one dihedral was kept for them.
C23_Witness ==
    /\ IndexingDone
    /\ Len(dihedral_indices) = 1
    /\ \E p, q \in DihedralPairs :
          /\ PairAtoms(p) = PairAtoms(q)
          /\ DihedralOf(p[1], p[2]) # DihedralOf(q[1], q[2])

\* ------------------------------------------------------------------- C24

\* An iteration of the loop of transform has ended.
IterationEnded == (pc = "loop" /\ i >= 1) \/ pc = "write"

\* C24: at the end of every iteration of transform the residual (last_step)
\* is the displacement asked for less the change of the primitive values
\* reached so far: dq - (values at the current coordinates - values at the
\* coordinates transform started from). A non-finite side equals a
\* non-finite side.
C24_ResidualIsWhatRemains ==
    IterationEnded =>
        LET vals0 == calculate_val(x0, bond_indices, bending_indices,
                                   dihedral_indices)
            now   == calculate_val(last_coords, bond_indices, bending_indices,
                                   dihedral_indices)
        IN  /\ last_vals = now
            /\ last_step = [k \in 1..Len(dq0) |->
                               NSub(dq0[k], NSub(now[k], vals0[k]))]

\* Two iterations or more have ended, the coordinates have moved, and the
\* residual is finite and no longer the displacement asked for.
C24_Witness ==
    /\ IterationEnded
    /\ i >= 2
    /\ last_coords # x0
    /\ ~HasNaN(last_step)
    /\ last_step # dq0
    /\ ~IsZeroVector(last_step)

\* ------------------------------------------------------------------- C25

\* self.bond_indices has been assigned (line 154) by a call that made no
\* forced connection: it holds the bonds found by distance.
DetectedBondsStored ==
    \/ BondsDone
    \/ (BondsFailed /\ err \in {"ValueError", "AssertionError"})

\* distance(i, j) <= 1.3 * (radius_i + radius_j), atoms counted from 0.
WithinBondingDistance(a, b) ==
    LET r == CR[atoms[a + 1]] + CR[atoms[b + 1]]
        d == Sub3(coords[a + 1], coords[b + 1])
    IN  10 * 10 * (d[1] * d[1] + d[2] * d[2] + d[3] * d[3]) <= 13 * 13 * r * r

\* C25: the bond list found by distance holds the pair (i, j), i < j, if and
\* only if distance(i, j) <= 1.3 * (radius_i + radius_j); it holds no pair
\* of an atom with itself and no pair twice.
C25_BondsByDistance ==
    DetectedBondsStored =>
        /\ \A a, b \in 0..(N - 1) :
              a < b => ((\E k \in 1..Len(bond_indices) : bond_indices[k] = <<a, b>>)
                            <=> WithinBondingDistance(a, b))
        /\ \A k \in 1..Len(bond_indices) :
              /\ Len(bond_indices[k]) = 2
              /\ bond_indices[k][1] < bond_indices[k][2]
              /\ bond_indices[k][2] <= N - 1
              /\ bond_indices[k][1] >= 0
        /\ \A j, k \in 1..Len(bond_indices) :
              j # k => SetOfTuple(bond_indices[j]) # SetOfTuple(bond_indices[k])

\* Bonds were stored for a geometry with a pair of atoms beyond bonding
\* distance and a pair within it only by the factor 1.3.
C25_Witness ==
    /\ DetectedBondsStored
    /\ \E a, b \in 0..(N - 1) : a < b /\ ~WithinBondingDistance(a, b)
    /\ \E a, b \in 0..(N - 1) :
          /\ a < b
          /\ WithinBondingDistance(a, b)
          /\ Dist2(coords[a + 1], coords[b + 1])
                > (CR[atoms[a + 1]] + CR[atoms[b + 1]]) * (CR[atoms[a + 1]] + CR[atoms[b + 1]])

\* ------------------------------------------------------------------- C26

RhoDone == pc = "ready" /\ N >= 3

\* Positions a third atom k can be moved to.
FreePoints(k) == (Points \ Range(coords)) \cup {coords[k + 1]}

\* rho[a][b] of the engine built from the same atoms with atom k given
\* element e and position p is the one stored.
SameRhoWith(a, b, k, e, p) ==
    LET alt == set_rho([atoms EXCEPT ![k + 1] = e], [coords EXCEPT ![k + 1] = p])
    IN  alt.err = "none" /\ alt.rho[a][b] = rho[a][b]

\* C26 (as claimed): the weight rho[i][j] depends on the elements of atoms i
\* and j and on their distance only: giving any third atom k another
\* element or another position leaves rho[i][j] as it is.
C26_RhoFromPairOnly ==
    RhoDone =>
        \A a, b, k \in 0..(N - 1) :
            (a < b /\ k \notin {a, b}) =>
                \A e \in Elements, p \in FreePoints(k) : SameRhoWith(a, b, k, e, p)

\* The part of C26 that holds: moving a third atom k, its element kept,
\* leaves rho[i][j] as it is.
C26_RhoIgnoresThirdPosition ==
    RhoDone =>
        \A a, b, k \in 0..(N - 1) :
            (a < b /\ k \notin {a, b}) =>
                \A p \in FreePoints(k) : SameRhoWith(a, b, k, atoms[k + 1], p)

\* ------------------------------------------------------------------- C27

\* C27 (as claimed): a call of set_delocalized_vectors that finds exactly
\* 3N-6 eigenvectors above the threshold completes without error and stores
\* them as the active basis (B and B_inv being then taken over that basis).
C27_FullBasisCompletes ==
    (op = "set_delocalized_vectors" /\ Cardinality(nz0) = 3 * N - 6) =>
        (err = "none" /\ delocalized_vectors = <<nz0>>)

\* ------------------------------------------------------------------- C28

\* self._coords has been computed by __init__ (line 33).
PrimitivesCalculated ==
    pc \in {"calculated", "ready"} \/ (pc = "failed" /\ op = "set_rho")

\* The index tuples of all primitives in the order claimed.
PrimitiveOrder == bond_indices \o bending_indices \o dihedral_indices

\* C28: once the primitives are calculated, B has exactly one row for each
\* primitive and 3N columns, the rows being those of the stretches in the
\* order of bond_indices, then of the bends in the order of bending_indices,
\* then of the dihedrals in the order of dihedral_indices; the values that
\* calculate returns come in the same order (compared when __init__ has just
\* calculated the primitives, the geometry being the same afterwards).
C28_RowsInPrimitiveOrder ==
    PrimitivesCalculated =>
        /\ Len(B_of(int_coords)) = Len(PrimitiveOrder)
        /\ [r \in 1..Len(int_coords) |-> int_coords[r].inds] = PrimitiveOrder
        /\ \A r \in 1..Len(int_coords) :
              /\ Len(B_of(int_coords)[r]) = 3 * N
              /\ Len(int_coords[r].inds) =
                    (IF r <= Len(bond_indices) THEN 2
                     ELSE IF r <= Len(bond_indices) + Len(bending_indices)
                     THEN 3 ELSE 4)
              /\ \A a \in 0..(N - 1) :
                    a \notin SetOfTuple(int_coords[r].inds)
                        => GradBlock(int_coords[r].grad, a) = Zero3
        /\ pc = "calculated" =>
              calculate_val(coords, bond_indices, bending_indices, dihedral_indices)
                  = [r \in 1..Len(int_coords) |-> int_coords[r].val]

\* Primitives of all three kinds were calculated.
C28_Witness ==
    /\ PrimitivesCalculated
    /\ Len(bond_indices) >= 3
    /\ Len(bending_indices) >= 2
    /\ Len(dihedral_indices) >= 1
    /\ Len(int_coords) = Len(PrimitiveOrder)

\* ------------------------------------------------------------------- C29

\* The bond sets handed to merge_fragments for the bond list of the probe.
BondSetsOf(bonds) == SeqMap(bonds, SetOfTuple)

\* C29: for every non-empty list of bond sets merge_fragments returns, after
\* at most as many nested calls as the list has sets, a list of sets whose
\* union is the union of the sets handed in.
C29_MergeEndsAndKeepsAtoms ==
    probe.site = "merge_fragments" =>
        /\ merge_fragments_depth(BondSetsOf(probe.arg)) <= Len(probe.arg)
        /\ Len(probe.out.fragments) >= 1
        /\ UNION Range(probe.out.fragments) = UNION Range(BondSetsOf(probe.arg))

\* merge_fragments has returned from a call on three bond sets that went
\* three calls deep, and from none deeper.
C29_Witness ==
    /\ probe.site = "merge_fragments"
    /\ Len(probe.arg) = 3
    /\ merge_fragments_depth(BondSetsOf(probe.arg)) = 3
    /\ Len(probe.out.fragments) = 1

====
